---- MODULE Spec2Model ----
(***************************************************************************)
(* Model of RLHFTrainer (src/src/rlhf/trainer.py): the in-memory feedback  *)
(* log, the feedback simulator, the pattern analyzer, the weight updater   *)
(* and the stats reporter.                                                 *)
(*                                                                         *)
(* Representation.  A Python str is the sequence of its characters, each a *)
(* one-character string.  A float score or track attribute is an integer   *)
(* number of hundredths (0.5 is 50, 0.3 is 30); every score the code       *)
(* computes from the modelled inputs is a multiple of 0.01, and the        *)
(* comparisons the code makes are kept as comparisons of these integers.   *)
(* A mean is kept as the pair (sum, count).  A dict is a function; a dict  *)
(* attribute that has not been assigned yet is absent from `attrs`.        *)
(* The timestamp of an entry (pd.Timestamp.now()) is not read by any       *)
(* operation and is left out of the entry.                                 *)
(***************************************************************************)
EXTENDS Integers, Sequences, FiniteSets, TLC

VARIABLES
  training_data,          \* self.training_data: the Feedback Log
  attrs,                  \* which of query_preferences / preference_adjustments exist
  query_preferences,      \* self.query_preferences: category -> stats
  preference_adjustments, \* self.preference_adjustments: category -> multiplier
  pc,                     \* "idle", or "simulate" inside simulate_user_feedback's loop
  caller,                 \* who runs the simulation: "user" or "train_rlhf"
  tracks_df,              \* the catalog argument of the running/last call
  n_samples,              \* the n_samples argument of the running/last simulation
  i,                      \* the loop index of simulate_user_feedback
  result,                 \* how the last operation ended
  stats,                  \* what get_training_stats last returned
  rec_calls,              \* recommender calls made by the running/last simulation
  rec_ok,                 \* those that returned
  warned,                 \* exception kinds caught and printed by it (trainer.py:97-99)
  len0,                   \* length of the log when that simulation started
  analyzer_runs,          \* _analyze_feedback_patterns runs in the last train_rlhf
  updater_runs,           \* _update_recommendation_weights runs in the last train_rlhf
  prior_adjustments,      \* the adjustments the last Weight Updater run found and dropped
  cq,                     \* a query string under test
  cres,                   \* what _categorize_query returned for it
  ctrack,                 \* a track under test
  cnoise,                 \* the draw of np.random.normal under test
  cscore                  \* what _simulate_track_score returned for cq, ctrack, cnoise:
                          \* << >> before the call, <<score>> after it

vars == <<training_data, attrs, query_preferences, preference_adjustments, pc,
          caller, tracks_df, n_samples, i, result, stats, rec_calls, rec_ok,
          warned, len0, analyzer_runs, updater_runs, prior_adjustments, cq, cres,
          ctrack, cnoise, cscore>>

trainerVars == <<training_data, attrs, query_preferences, preference_adjustments,
                 pc, caller, tracks_df, n_samples, i, result, stats, rec_calls,
                 rec_ok, warned, len0, analyzer_runs,
                 updater_runs, prior_adjustments>>

\* The arguments and results of the functions applied on their own.
testVars == <<cq, cres, ctrack, cnoise, cscore>>

-----------------------------------------------------------------------------
(* Bounds of the model. *)

\* Longest Feedback Log explored.
MaxLog == 2
\* Sample count of the simulation train_rlhf starts on an empty log (the code
\* passes n_samples=50, trainer.py:166; the model runs a shorter batch).
DefaultSamples == 2
\* Largest num_epochs argument tried.
MaxEpochs == 2
\* Most fragments joined into a query under test.
MaxFrags == 2
\* Most scores behind the statistics of a category handed to the Weight
\* Updater on its own.
MaxScores == 2
\* Most fragments joined into a query handed to _simulate_track_score on its
\* own.
MaxKeywords == 3

-----------------------------------------------------------------------------
(* Strings. *)

UpperCase == <<"A","B","C","D","E","F","G","H","I","J","K","L","M",
               "N","O","P","Q","R","S","T","U","V","W","X","Y","Z">>
LowerCase == <<"a","b","c","d","e","f","g","h","i","j","k","l","m",
               "n","o","p","q","r","s","t","u","v","w","x","y","z">>

\* str.lower() on one character.
LowerChar(c) ==
  IF \E k \in 1..Len(UpperCase) : UpperCase[k] = c
  THEN LowerCase[CHOOSE k \in 1..Len(UpperCase) : UpperCase[k] = c]
  ELSE c

\* str.lower()
Lower(s) == [k \in 1..Len(s) |-> LowerChar(s[k])]

\* `w in s` for strings: w occurs in s as a contiguous substring.
Contains(s, w) ==
  \E k \in 1..(Len(s) - Len(w) + 1) : SubSeq(s, k, k + Len(w) - 1) = w

\* any(word in s for word in words)
AnyIn(words, s) == \E w \in words : Contains(s, w)

\* The keywords of _categorize_query and _simulate_track_score.
W_dance == <<"d","a","n","c","e">>
W_party == <<"p","a","r","t","y">>
W_club == <<"c","l","u","b">>
W_calm == <<"c","a","l","m">>
W_relax == <<"r","e","l","a","x">>
W_study == <<"s","t","u","d","y">>
W_energetic == <<"e","n","e","r","g","e","t","i","c">>
W_workout == <<"w","o","r","k","o","u","t">>
W_gym == <<"g","y","m">>
W_sad == <<"s","a","d">>
W_emotional == <<"e","m","o","t","i","o","n","a","l">>
W_melancholy == <<"m","e","l","a","n","c","h","o","l","y">>
W_happy == <<"h","a","p","p","y">>
W_positive == <<"p","o","s","i","t","i","v","e">>
W_upbeat == <<"u","p","b","e","a","t">>

\* sample_queries of simulate_user_feedback, in the order of the list.
\* "upbeat dance music for parties"
Q0 ==
  <<"u","p","b","e","a","t"," ","d","a","n","c","e"," ","m","u","s","i","c"," ","f","o","r"," ","p","a","r","t","i","e","s">>
\* "calm relaxing music for studying"
Q1 ==
  <<"c","a","l","m"," ","r","e","l","a","x","i","n","g"," ","m","u","s","i","c"," ","f","o","r"," ","s","t","u","d","y","i","n","g">>
\* "energetic workout music"
Q2 ==
  <<"e","n","e","r","g","e","t","i","c"," ","w","o","r","k","o","u","t"," ","m","u","s","i","c">>
\* "sad emotional songs"
Q3 ==
  <<"s","a","d"," ","e","m","o","t","i","o","n","a","l"," ","s","o","n","g","s">>
\* "happy positive music"
Q4 ==
  <<"h","a","p","p","y"," ","p","o","s","i","t","i","v","e"," ","m","u","s","i","c">>
\* "acoustic folk music"
Q5 ==
  <<"a","c","o","u","s","t","i","c"," ","f","o","l","k"," ","m","u","s","i","c">>
\* "electronic dance beats"
Q6 ==
  <<"e","l","e","c","t","r","o","n","i","c"," ","d","a","n","c","e"," ","b","e","a","t","s">>
\* "rock music with guitar"
Q7 ==
  <<"r","o","c","k"," ","m","u","s","i","c"," ","w","i","t","h"," ","g","u","i","t","a","r">>
\* "jazz and blues music"
Q8 ==
  <<"j","a","z","z"," ","a","n","d"," ","b","l","u","e","s"," ","m","u","s","i","c">>
\* "classical orchestral music"
Q9 ==
  <<"c","l","a","s","s","i","c","a","l"," ","o","r","c","h","e","s","t","r","a","l"," ","m","u","s","i","c">>
sample_queries == {Q0, Q1, Q2, Q3, Q4, Q5, Q6, Q7, Q8, Q9}

-----------------------------------------------------------------------------
(* Inputs. *)

\* Track identifiers the recommender may return.
TrackIds == {"t1", "t2", "t3"}

\* An empty dict / a catalog with no rows.
EmptyMap == [t \in {} |-> 0]

\* Catalogs (tracks_df): track_id -> the attributes of its first row.  A track
\* may lack an attribute.  CatA holds t1 and t2 and not t3.
CatEmpty == EmptyMap
CatA ==
  ("t1" :> [danceability |-> 90, energy |-> 20]) @@ ("t2" :> [valence |-> 80])
Catalogs == {CatEmpty, CatA}

\* What get_recommendations may return as recommended_ids (at most
\* n_recommendations=5 identifiers, trainer.py:80): t3 is in no catalog, and
\* t2 is in CatA without being recommended.
RecLists == {<<"t3", "t1">>}

\* The exceptions a recommender call may raise; both derive from Exception.
ExceptionKinds == {"RecommenderFailure", "ValueError"}

\* One call of music_rag_system.get_recommendations: it returns or it raises.
RecommenderOutcomes ==
  {[kind |-> "ok", ids |-> r, exc |-> "none"] : r \in RecLists}
    \cup {[kind |-> "raise", ids |-> << >>, exc |-> e] : e \in ExceptionKinds}

\* Draws of np.random.normal(0, 0.1), in hundredths; the large ones reach both
\* ends of the clamp.
NoiseSet == {-60, 60}

\* Pieces a query under test is put together from: every keyword, some in
\* upper case or inside a longer word, and words that hold no keyword
\* ("parties" does not contain "party"; "crusade" contains "sad").
\* "dance"
F_dance == <<"d","a","n","c","e">>
\* "Party"
F_party == <<"P","a","r","t","y">>
\* "club"
F_club == <<"c","l","u","b">>
\* "Calm"
F_calm == <<"C","a","l","m">>
\* "relaxing"
F_relaxing == <<"r","e","l","a","x","i","n","g">>
\* "study"
F_study == <<"s","t","u","d","y">>
\* "energetic"
F_energetic == <<"e","n","e","r","g","e","t","i","c">>
\* "workout"
F_workout == <<"w","o","r","k","o","u","t">>
\* "GYM"
F_gym == <<"G","Y","M">>
\* "sad"
F_sad == <<"s","a","d">>
\* "emotional"
F_emotional == <<"e","m","o","t","i","o","n","a","l">>
\* "melancholy"
F_melancholy == <<"m","e","l","a","n","c","h","o","l","y">>
\* "happy"
F_happy == <<"h","a","p","p","y">>
\* "positive"
F_positive == <<"p","o","s","i","t","i","v","e">>
\* "UpBeat"
F_upbeat == <<"U","p","B","e","a","t">>
\* "parties"
F_parties == <<"p","a","r","t","i","e","s">>
\* "crusade"
F_crusade == <<"c","r","u","s","a","d","e">>
\* " and "
F_and == <<" ","a","n","d"," ">>
\* "jazz"
F_jazz == <<"j","a","z","z">>
Fragments ==
  {F_dance, F_party, F_club, F_calm, F_relaxing, F_study, F_energetic,
   F_workout, F_gym, F_sad, F_emotional, F_melancholy, F_happy, F_positive,
   F_upbeat, F_parties, F_crusade, F_and, F_jazz}

\* Arguments a caller passes to collect_feedback.
\* "Dance and CALM"
QDanceCalm == <<"D","a","n","c","e"," ","a","n","d"," ","C","A","L","M">>
CollectQueries == {QDanceCalm}
CollectRecs == {<<"t1">>}
CollectFeedbacks == {("t1" :> 90), ("t2" :> 150)}

-----------------------------------------------------------------------------
(* Pure functions of the trainer. *)

Categories == {"dance", "calm", "energetic", "sad", "happy", "general"}

\* _categorize_query with the calm keywords tested before the dance keywords.
_categorize_query_calm_first(query) ==
  LET query_lower == Lower(query) IN
  IF AnyIn({W_calm, W_relax, W_study}, query_lower) THEN "calm"
  ELSE IF AnyIn({W_dance, W_party, W_club}, query_lower) THEN "dance"
  ELSE IF AnyIn({W_energetic, W_workout, W_gym}, query_lower) THEN "energetic"
  ELSE IF AnyIn({W_sad, W_emotional, W_melancholy}, query_lower) THEN "sad"
  ELSE IF AnyIn({W_happy, W_positive, W_upbeat}, query_lower) THEN "happy"
  ELSE "general"

\* RLHFTrainer._categorize_query
_categorize_query(query) ==
  LET query_lower == Lower(query) IN
  IF AnyIn({W_dance, W_party, W_club}, query_lower) THEN "dance"
  ELSE IF AnyIn({W_calm, W_relax, W_study}, query_lower) THEN "calm"
  ELSE IF AnyIn({W_energetic, W_workout, W_gym}, query_lower) THEN "energetic"
  ELSE IF AnyIn({W_sad, W_emotional, W_melancholy}, query_lower) THEN "sad"
  ELSE IF AnyIn({W_happy, W_positive, W_upbeat}, query_lower) THEN "happy"
  ELSE "general"

\* _categorize_query on the queries that can be in the log, tabulated once.
KnownQueries == sample_queries \cup CollectQueries
CategoryOf == [q \in KnownQueries |-> _categorize_query(q)]

\* track.get(key, default)
Get(track, key, default) == IF key \in DOMAIN track THEN track[key] ELSE default

Max(a, b) == IF a >= b THEN a ELSE b
Min(a, b) == IF a <= b THEN a ELSE b

\* The clamp without its lower end: min(1, x).
ClampUpperOnly(x) == Min(100, x)

\* The clamp without its upper end: max(0, x).
ClampLowerOnly(x) == Max(0, x)

\* max(0, min(1, x)), trainer.py:150
Clamp(x) == Max(0, Min(100, x))

\* RLHFTrainer._simulate_track_score, with the drawn noise as an argument.
_simulate_track_score(query, track, noise) ==
  LET query_lower == Lower(query)
      danceability == Get(track, "danceability", 50)
      energy == Get(track, "energy", 50)
      valence == Get(track, "valence", 50)
      s0 == 50
      s1 == IF AnyIn({W_dance, W_party}, query_lower)
            THEN (IF danceability > 70 THEN s0 + 30
                  ELSE IF danceability < 30 THEN s0 - 20 ELSE s0)
            ELSE s0
      s2 == IF AnyIn({W_energetic, W_workout}, query_lower)
            THEN (IF energy > 70 THEN s1 + 30
                  ELSE IF energy < 30 THEN s1 - 20 ELSE s1)
            ELSE s1
      s3 == IF AnyIn({W_calm, W_relax}, query_lower)
            THEN (IF energy < 40 THEN s2 + 30
                  ELSE IF energy > 70 THEN s2 - 20 ELSE s2)
            ELSE s2
      s4 == IF AnyIn({W_happy, W_positive}, query_lower)
            THEN (IF valence > 70 THEN s3 + 30
                  ELSE IF valence < 30 THEN s3 - 20 ELSE s3)
            ELSE s3
      s5 == IF AnyIn({W_sad, W_emotional}, query_lower)
            THEN (IF valence < 30 THEN s4 + 30
                  ELSE IF valence > 70 THEN s4 - 20 ELSE s4)
            ELSE s4
  IN Clamp(s5 + noise)

\* list(d.values()) of a dict, as a sequence (in key order; no operation
\* depends on the order).
RECURSIVE Values(_)
Values(d) ==
  IF DOMAIN d = {} THEN << >>
  ELSE LET k == CHOOSE k \in DOMAIN d : TRUE
       IN <<d[k]>> \o Values([j \in DOMAIN d \ {k} |-> d[j]])

RECURSIVE SumSeq(_)
SumSeq(s) == IF s = << >> THEN 0 ELSE Head(s) + SumSeq(Tail(s))

\* A feedback entry as collect_feedback builds it (trainer.py:38-43).
FeedbackEntry(query, recommended_tracks, user_feedback) ==
  [query |-> query, recommendations |-> recommended_tracks,
   feedback |-> user_feedback]

\* collect_feedback with the entry put in front: training_data.insert(0, entry).
collect_feedback_front(log, query, recommended_tracks, user_feedback) ==
  <<FeedbackEntry(query, recommended_tracks, user_feedback)>> \o log

\* RLHFTrainer.collect_feedback: the log after the call.
collect_feedback(log, query, recommended_tracks, user_feedback) ==
  Append(log, FeedbackEntry(query, recommended_tracks, user_feedback))

\* query_feedback with the list of a category started afresh at every entry
\* (`query_feedback[query_type] = []` outside the `if`).
RECURSIVE QueryFeedbackReset(_, _)
QueryFeedbackReset(log, k) ==
  IF k = 0 THEN EmptyMap
  ELSE LET prev == QueryFeedbackReset(log, k - 1)
           query_type == CategoryOf[log[k].query]
       IN [c \in DOMAIN prev \cup {query_type} |->
             IF c = query_type THEN Values(log[k].feedback) ELSE prev[c]]

\* query_feedback of _analyze_feedback_patterns after the first k entries:
\* category -> the list of scores (trainer.py:188-195).
RECURSIVE QueryFeedback(_, _)
QueryFeedback(log, k) ==
  IF k = 0 THEN EmptyMap
  ELSE LET prev == QueryFeedback(log, k - 1)
           query_type == CategoryOf[log[k].query]
           old == IF query_type \in DOMAIN prev THEN prev[query_type] ELSE << >>
       IN [c \in DOMAIN prev \cup {query_type} |->
             IF c = query_type THEN old \o Values(log[k].feedback) ELSE prev[c]]

\* The statistics of one category (trainer.py:201-205): avg_score is
\* sum_score / count, std_score is sqrt(sumsq_score / count - avg_score^2).
CategoryStats(scores) ==
  [sum_score |-> SumSeq(scores),
   sumsq_score |-> SumSeq([k \in 1..Len(scores) |-> scores[k] * scores[k]]),
   count |-> Len(scores)]

\* The analysis without the `if scores:` test: a category with no score gets
\* a record too.
_analyze_keep_empty(log) ==
  LET query_feedback == QueryFeedback(log, Len(log)) IN
  [c \in DOMAIN query_feedback |-> CategoryStats(query_feedback[c])]

\* RLHFTrainer._analyze_feedback_patterns: the new self.query_preferences.
_analyze_feedback_patterns(log) ==
  LET query_feedback == QueryFeedback(log, Len(log)) IN
  [c \in {c \in DOMAIN query_feedback : query_feedback[c] # << >>} |->
     CategoryStats(query_feedback[c])]

\* The multiplier with the comparisons made non-strict: avg_score >= 0.7 and
\* avg_score <= 0.3.
MultiplierNonStrict(st) ==
  IF st.sum_score >= 70 * st.count THEN 120
  ELSE IF st.sum_score <= 30 * st.count THEN 80
  ELSE 100

\* The multiplier of one category (trainer.py:241-249): avg_score > 0.7 and
\* avg_score < 0.3, with avg_score = sum_score / count.
Multiplier(st) ==
  IF st.sum_score > 70 * st.count THEN 120
  ELSE IF st.sum_score < 30 * st.count THEN 80
  ELSE 100

\* RLHFTrainer._update_recommendation_weights: the new
\* self.preference_adjustments; prefs is getattr(self, 'query_preferences', {}).
_update_recommendation_weights(prefs) ==
  [c \in DOMAIN prefs |-> Multiplier(prefs[c])]

\* All scores of the log (all_scores of get_training_stats).
RECURSIVE AllScores(_)
AllScores(log) ==
  IF log = << >> THEN << >>
  ELSE Values(Head(log).feedback) \o AllScores(Tail(log))

NoStats == [message |-> "none"]

\* RLHFTrainer.get_training_stats: the returned dict; average_feedback_score
\* is score_sum / score_count, and 0 when there is no score.
get_training_stats(log) ==
  IF Len(log) = 0 THEN [message |-> "No training data collected"]
  ELSE LET all_scores == AllScores(log)
           at == 1..Len(all_scores)
       IN [total_samples |-> Len(log),
           total_feedback_items |-> Len(all_scores),
           score_sum |-> SumSeq(all_scores),
           score_count |-> Len(all_scores),
           high |-> Cardinality({k \in at : all_scores[k] > 70}),
           medium |-> Cardinality({k \in at : 30 <= all_scores[k] /\ all_scores[k] <= 70}),
           low |-> Cardinality({k \in at : all_scores[k] < 30})]

-----------------------------------------------------------------------------
(* The simulator's loop body. *)

Range(s) == {s[k] : k \in 1..Len(s)}

\* The feedback dict with a score for every track of the catalog, recommended
\* or not.
SimulatedFeedbackAllCatalog(query, recommended_ids, df, noise) ==
  [t \in DOMAIN df |-> _simulate_track_score(query, df[t], noise[t])]

\* The feedback dict one sample builds (trainer.py:84-93): a score for every
\* recommended id found in the catalog.  noise[t] is the draw of
\* np.random.normal for the last scoring of track t (a repeated id overwrites
\* its earlier score).
SimulatedFeedback(query, recommended_ids, df, noise) ==
  [t \in {t \in Range(recommended_ids) : t \in DOMAIN df} |->
     _simulate_track_score(query, df[t], noise[t])]

\* `except RecommenderFailure`: only that kind is caught.
CaughtRecommenderFailureOnly(exc) == exc = "RecommenderFailure"

\* The draws of np.random.normal in one sample, per catalog track: none when
\* the recommender call raised, since no track is scored then.
NoiseDraws(out, df) ==
  IF out.kind = "ok" THEN [DOMAIN df -> NoiseSet] ELSE {EmptyMap}

\* `except Exception` (trainer.py:97): is an exception of this kind caught?
Caught(exc) == exc \in ExceptionKinds

\* The loop body with `if feedback:` before collect_feedback: a sample that
\* scored no track appends nothing.
SampleLogSkipsEmpty(log, query, out, df, noise) ==
  IF out.kind = "ok" /\ SimulatedFeedback(query, out.ids, df, noise) # EmptyMap
  THEN collect_feedback(log, query, out.ids,
                        SimulatedFeedback(query, out.ids, df, noise))
  ELSE log

\* The loop body with collect_feedback in a `finally`: a failed sample appends
\* an entry with no recommendations.
SampleLogFailureAppends(log, query, out, df, noise) ==
  IF out.kind = "ok"
  THEN collect_feedback(log, query, out.ids,
                        SimulatedFeedback(query, out.ids, df, noise))
  ELSE collect_feedback(log, query, << >>, EmptyMap)

\* The log after one iteration of the loop (trainer.py:72-99): a sample whose
\* recommender call returned appends one entry, a sample whose call raised a
\* caught exception appends nothing.
SampleLog(log, query, out, df, noise) ==
  IF out.kind = "ok"
  THEN collect_feedback(log, query, out.ids,
                        SimulatedFeedback(query, out.ids, df, noise))
  ELSE log

\* One pass per epoch: `for _ in range(num_epochs)` around the two calls.
PassesPerEpoch(epochs) == epochs

\* How many times train_rlhf runs the Analyzer and the Weight Updater
\* (trainer.py:172-176): once, num_epochs is not read.
Passes(epochs) == 1

-----------------------------------------------------------------------------
(* The trainer as a state machine. *)

\* RLHFTrainer.__init__
TrainerInit ==
  /\ training_data = << >>
  /\ attrs = {}
  /\ query_preferences = EmptyMap
  /\ preference_adjustments = EmptyMap
  /\ pc = "idle"
  /\ caller = "none"
  /\ tracks_df = EmptyMap
  /\ n_samples = 0
  /\ i = 0
  /\ result = "constructed"
  /\ stats = NoStats
  /\ rec_calls = 0
  /\ rec_ok = 0
  /\ warned = {}
  /\ len0 = 0
  /\ analyzer_runs = 0
  /\ updater_runs = 0
  /\ prior_adjustments = EmptyMap

\* No function has been applied on its own.
NoTest ==
  /\ ctrack = EmptyMap
  /\ cnoise = 0
  /\ cscore = << >>

Init ==
  /\ TrainerInit
  /\ cq = << >>
  /\ cres = "none"
  /\ NoTest

\* An operation that runs no simulation starts with the per-call records cleared.
NoSimulation ==
  /\ caller' = "none"
  /\ tracks_df' = EmptyMap
  /\ n_samples' = 0
  /\ i' = 0
  /\ rec_calls' = 0
  /\ rec_ok' = 0
  /\ warned' = {}
  /\ len0' = Len(training_data)

\* collect_feedback(query, recommended_tracks, user_feedback)
CollectFeedback ==
  /\ pc = "idle"
  /\ Len(training_data) < MaxLog
  /\ \E query \in CollectQueries, recommended_tracks \in CollectRecs,
        user_feedback \in CollectFeedbacks :
       training_data' =
         collect_feedback(training_data, query, recommended_tracks, user_feedback)
  /\ result' = "collected"
  /\ stats' = NoStats
  /\ NoSimulation
  /\ analyzer_runs' = 0
  /\ prior_adjustments' = EmptyMap
  /\ updater_runs' = 0
  /\ UNCHANGED <<attrs, query_preferences, preference_adjustments, pc, testVars>>

\* Entry of simulate_user_feedback(tracks_df, n_samples), called by `who`.
StartSimulation(who, df, n) ==
  /\ pc' = "simulate"
  /\ caller' = who
  /\ tracks_df' = df
  /\ n_samples' = n
  /\ i' = 0
  /\ rec_calls' = 0
  /\ rec_ok' = 0
  /\ warned' = {}
  /\ len0' = Len(training_data)
  /\ result' = "running"
  /\ stats' = NoStats
  /\ analyzer_runs' = 0
  /\ prior_adjustments' = EmptyMap
  /\ updater_runs' = 0
  /\ UNCHANGED <<training_data, attrs, query_preferences, preference_adjustments,
                 testVars>>

\* simulate_user_feedback(tracks_df, n_samples) called directly.
SimulateUserFeedback ==
  /\ pc = "idle"
  /\ \E df \in Catalogs, n \in 0..(MaxLog - Len(training_data)) :
       StartSimulation("user", df, n)

\* One iteration of the loop `for i in range(n_samples)` (trainer.py:72-99).
SimulateSample ==
  /\ pc = "simulate"
  /\ i < n_samples
  /\ \E query \in sample_queries, out \in RecommenderOutcomes :
     \E noise \in NoiseDraws(out, tracks_df) :
       /\ rec_calls' = rec_calls + 1
       /\ rec_ok' = IF out.kind = "ok" THEN rec_ok + 1 ELSE rec_ok
       /\ IF out.kind = "raise" /\ ~Caught(out.exc)
          THEN \* the exception leaves simulate_user_feedback and its caller
               /\ pc' = "idle"
               /\ result' = "raised"
               /\ UNCHANGED <<training_data, warned, i>>
          ELSE /\ training_data' = SampleLog(training_data, query, out, tracks_df, noise)
               /\ warned' = IF out.kind = "raise" THEN warned \cup {out.exc} ELSE warned
               /\ i' = i + 1
               /\ UNCHANGED <<pc, result>>
  /\ UNCHANGED <<attrs, query_preferences, preference_adjustments, caller,
                 tracks_df, n_samples, stats, len0, analyzer_runs,
                 updater_runs, prior_adjustments, testVars>>

\* The loop is over and simulate_user_feedback returns to an outside caller.
SimulateReturn ==
  /\ pc = "simulate"
  /\ i = n_samples
  /\ caller = "user"
  /\ pc' = "idle"
  /\ result' = "simulated"
  /\ UNCHANGED <<training_data, attrs, query_preferences, preference_adjustments,
                 caller, tracks_df, n_samples, i, stats, rec_calls, rec_ok, warned, len0, analyzer_runs, updater_runs, prior_adjustments, testVars>>

\* train_rlhf from the second length test on (trainer.py:168-179).
TrainBody(epochs) ==
  IF Len(training_data) = 0
  THEN /\ result' = "skipped"
       /\ analyzer_runs' = 0
       /\ prior_adjustments' = EmptyMap
       /\ updater_runs' = 0
       /\ UNCHANGED <<attrs, query_preferences, preference_adjustments>>
  ELSE /\ result' = "trained"
       /\ analyzer_runs' = Passes(epochs)
       /\ prior_adjustments' = preference_adjustments
       /\ updater_runs' = Passes(epochs)
       /\ IF Passes(epochs) > 0
          THEN /\ query_preferences' = _analyze_feedback_patterns(training_data)
               /\ preference_adjustments' =
                    _update_recommendation_weights(query_preferences')
               /\ attrs' = attrs \cup {"query_preferences", "preference_adjustments"}
          ELSE UNCHANGED <<attrs, query_preferences, preference_adjustments>>

\* train_rlhf(tracks_df, num_epochs) on an empty log: it first runs the
\* simulator (trainer.py:165-166).
TrainRlhfSimulate ==
  /\ pc = "idle"
  /\ Len(training_data) = 0
  /\ \E df \in Catalogs :
       StartSimulation("train_rlhf", df, DefaultSamples)

\* train_rlhf resumes when the simulation it started returns.  num_epochs, an
\* argument of the call, is not read before this point, so its value is drawn
\* here.
TrainRlhfResume ==
  /\ pc = "simulate"
  /\ i = n_samples
  /\ caller = "train_rlhf"
  /\ pc' = "idle"
  /\ \E epochs \in 1..MaxEpochs : TrainBody(epochs)
  /\ UNCHANGED <<training_data, caller, tracks_df, n_samples, i, stats, rec_calls,
                 rec_ok, warned, len0, testVars>>

\* train_rlhf(tracks_df, num_epochs) on a log that holds entries; tracks_df
\* is not read on this path.
TrainRlhf ==
  /\ pc = "idle"
  /\ Len(training_data) > 0
  /\ \E epochs \in 1..MaxEpochs : TrainBody(epochs)
  /\ NoSimulation
  /\ stats' = NoStats
  /\ UNCHANGED <<training_data, pc, testVars>>

\* get_training_stats()
GetTrainingStats ==
  /\ pc = "idle"
  /\ stats' = get_training_stats(training_data)
  /\ result' = "stats"
  /\ NoSimulation
  /\ analyzer_runs' = 0
  /\ prior_adjustments' = EmptyMap
  /\ updater_runs' = 0
  /\ UNCHANGED <<training_data, attrs, query_preferences, preference_adjustments,
                 pc, testVars>>

Next ==
  \/ CollectFeedback
  \/ SimulateUserFeedback
  \/ SimulateSample
  \/ SimulateReturn
  \/ TrainRlhfSimulate
  \/ TrainRlhfResume
  \/ TrainRlhf
  \/ GetTrainingStats

Spec == Init /\ [][Next]_vars

-----------------------------------------------------------------------------
(* _categorize_query applied to queries put together from fragments. *)

\* The strings made of at most k fragments.
RECURSIVE Joined(_)
Joined(k) ==
  IF k = 0 THEN {<< >>}
  ELSE Joined(k - 1) \cup {q \o f : q \in Joined(k - 1), f \in Fragments}

InitCategorize ==
  /\ TrainerInit
  /\ cq \in Joined(MaxFrags)
  /\ cres = "none"
  /\ NoTest

\* A call _categorize_query(cq).
Categorize ==
  /\ cres = "none"
  /\ cres' = _categorize_query(cq)
  /\ UNCHANGED <<cq, ctrack, cnoise, cscore, trainerVars>>

NextCategorize == Categorize

SpecCategorize == InitCategorize /\ [][NextCategorize]_vars

-----------------------------------------------------------------------------
(* _update_recommendation_weights applied to given category statistics. *)

\* Scores behind the statistics handed to the Weight Updater: 0.25, 0.3, 0.5,
\* 0.7 and 0.75.  The float mean np.mean gives for a list of at most three
\* of them falls on the same side of 0.7 and of 0.3 as the exact mean.
UpdaterScores == {25, 30, 50, 70, 75}

\* The non-empty lists of at most k such scores.
ScoreLists(k) == UNION {[1..n -> UpdaterScores] : n \in 1..k}

\* The statistics the Analyzer leaves for such lists.
UpdaterStats == {CategoryStats(scores) : scores \in ScoreLists(MaxScores)}

\* The categories that may have statistics.
UpdaterCategories == {"dance", "general"}

\* self.query_preferences when the Weight Updater is called.
UpdaterPreferences ==
  UNION {[cs -> UpdaterStats] : cs \in SUBSET UpdaterCategories}

\* self.preference_adjustments left by an earlier run; "calm" and "sad" are
\* categories without statistics now.
PriorAdjustments ==
  {EmptyMap, ("calm" :> 120), ("dance" :> 80) @@ ("sad" :> 100)}

\* A trainer whose query_preferences (absent, or set by an Analyzer run) and
\* preference_adjustments (absent, or set by an earlier run) are given.
InitUpdater ==
  /\ training_data = << >>
  /\ \E has \in BOOLEAN :
       /\ query_preferences \in (IF has THEN UpdaterPreferences ELSE {EmptyMap})
       /\ preference_adjustments \in PriorAdjustments
       /\ attrs = (IF has THEN {"query_preferences"} ELSE {})
                    \cup (IF preference_adjustments # EmptyMap
                          THEN {"preference_adjustments"} ELSE {})
  /\ pc = "idle"
  /\ caller = "none"
  /\ tracks_df = EmptyMap
  /\ n_samples = 0
  /\ i = 0
  /\ result = "constructed"
  /\ stats = NoStats
  /\ rec_calls = 0
  /\ rec_ok = 0
  /\ warned = {}
  /\ len0 = 0
  /\ analyzer_runs = 0
  /\ updater_runs = 0
  /\ prior_adjustments = EmptyMap
  /\ cq = << >>
  /\ cres = "none"
  /\ NoTest

\* A call _update_recommendation_weights().
UpdateRecommendationWeights ==
  /\ pc = "idle"
  /\ preference_adjustments' =
       _update_recommendation_weights(
         IF "query_preferences" \in attrs THEN query_preferences ELSE EmptyMap)
  /\ attrs' = attrs \cup {"preference_adjustments"}
  /\ prior_adjustments' = preference_adjustments
  /\ updater_runs' = 1
  /\ result' = "updated"
  /\ UNCHANGED <<training_data, query_preferences, pc, caller, tracks_df,
                 n_samples, i, stats, rec_calls, rec_ok, warned, len0,
                 analyzer_runs, testVars>>

NextUpdater == UpdateRecommendationWeights

SpecUpdater == InitUpdater /\ [][NextUpdater]_vars

-----------------------------------------------------------------------------
(* _simulate_track_score applied to given queries, tracks and noise. *)

\* Pieces of the queries: a keyword of each of the five tests of
\* _simulate_track_score, some in upper case, and a word that holds none.
ScoreFragments == {F_party, F_workout, F_calm, F_happy, F_sad, F_jazz}

\* The strings made of at most k of these pieces.
RECURSIVE ScoreQueries(_)
ScoreQueries(k) ==
  IF k = 0 THEN {<< >>}
  ELSE ScoreQueries(k - 1)
         \cup {q \o f : q \in ScoreQueries(k - 1), f \in ScoreFragments}

\* The attributes _simulate_track_score reads.
ScoreAttributes == {"danceability", "energy", "valence"}

\* Values of an attribute, in hundredths: -5 and 10, outside [0,1], and 0.35
\* and 0.8 inside it (0.35 lies between the 0.3 and the 0.4 of the tests).
AttributeValues == {-500, 35, 80, 1000}

\* The tracks: each attribute is missing or has one of the values.
ScoreTracks == UNION {[as -> AttributeValues] : as \in SUBSET ScoreAttributes}

\* Draws of np.random.normal(0, 0.1): small ones, and ones far beyond the
\* width of [0,1].
ScoreNoise == {-300, -5, 5, 300}

InitScore ==
  /\ TrainerInit
  /\ cq \in ScoreQueries(MaxKeywords)
  /\ cres = "none"
  /\ ctrack \in ScoreTracks
  /\ cnoise \in ScoreNoise
  /\ cscore = << >>

\* A call _simulate_track_score(cq, ctrack) in which np.random.normal gives
\* cnoise.
SimulateTrackScore ==
  /\ cscore = << >>
  /\ cscore' = <<_simulate_track_score(cq, ctrack, cnoise)>>
  /\ UNCHANGED <<cq, cres, ctrack, cnoise, trainerVars>>

NextScore == SimulateTrackScore

SpecScore == InitScore /\ [][NextScore]_vars

-----------------------------------------------------------------------------
(* Properties. *)

\* The entries a step appends to the log.
Appended == (Len(training_data) + 1)..Len(training_data')

ScoresInRange(entry) ==
  \A t \in DOMAIN entry.feedback :
    0 <= entry.feedback[t] /\ entry.feedback[t] <= 100

KeysRecommended(entry) == DOMAIN entry.feedback \subseteq Range(entry.recommendations)

\* The last operation was a train_rlhf that ran the simulator and returned.
TrainedFromEmpty ==
  pc = "idle" /\ caller = "train_rlhf" /\ result \in {"skipped", "trained"}

\* C1 as stated: in every reachable state every score stored in the feedback
\* mapping of every entry of the Feedback Log lies in [0,1].
C1_AllScoresInUnitInterval ==
  \A k \in 1..Len(training_data) : ScoresInRange(training_data[k])

\* C1 amended: every entry appended by a step that is not a collect_feedback
\* call (the simulator's samples, alone or inside train_rlhf) holds only scores
\* in [0,1]; collect_feedback stores the caller's scores as given.
C1_SimulatedScoresInUnitInterval ==
  [][result' # "collected" => \A k \in Appended : ScoresInRange(training_data'[k])]_vars

\* A simulation on the empty log returned, and it stored a score clamped to 1
\* and a score clamped to 0.
C1_Witness ==
  /\ result = "simulated"
  /\ len0 = 0
  /\ \E k \in 1..Len(training_data) :
       "t1" \in DOMAIN training_data[k].feedback /\ training_data[k].feedback["t1"] = 100
  /\ \E k \in 1..Len(training_data) :
       "t1" \in DOMAIN training_data[k].feedback /\ training_data[k].feedback["t1"] = 0

\* C2 as stated: in every reachable state the keys of every entry's feedback
\* mapping are a subset of the track identifiers in its recommendations.
C2_FeedbackKeysRecommended ==
  \A k \in 1..Len(training_data) : KeysRecommended(training_data[k])

\* C2 amended: every entry appended by a step that is not a collect_feedback
\* call has its feedback keys among its recommendations; collect_feedback
\* stores the caller's mapping as given.
C2_SimulatedKeysRecommended ==
  [][result' # "collected" => \A k \in Appended : KeysRecommended(training_data'[k])]_vars

\* A simulation returned having stored an entry that scores one of two
\* recommended tracks, the one the catalog holds.
C2_Witness ==
  /\ result = "simulated"
  /\ \E k \in (len0 + 1)..Len(training_data) :
       /\ training_data[k].recommendations = <<"t3", "t1">>
       /\ DOMAIN training_data[k].feedback = {"t1"}

\* C3: the Feedback Log is append-only: across every step the log before the
\* step is a prefix of the log after it (so its length never decreases, no
\* appended entry changes or moves, and a populated log never becomes empty).
C3_AppendOnly ==
  [][/\ Len(training_data) <= Len(training_data')
     /\ SubSeq(training_data', 1, Len(training_data)) = training_data]_vars

\* train_rlhf ran on a log of two different entries and left it as it was.
C3_Witness ==
  /\ result = "trained"
  /\ caller = "none"
  /\ Len(training_data) = 2
  /\ training_data[1] # training_data[2]

NoneInCatalog ==
  \A k \in 1..Len(training_data) :
    \A t \in Range(training_data[k].recommendations) : t \notin DOMAIN tracks_df

C6_AlwaysFailingRecommenderSkips ==
  (pc = "idle" /\ caller = "train_rlhf" /\ rec_ok = 0) =>
    /\ result = "skipped"
    /\ rec_calls = n_samples
    /\ training_data = << >>
    /\ analyzer_runs = 0
    /\ updater_runs = 0
    /\ attrs = {}
    /\ query_preferences = EmptyMap
    /\ preference_adjustments = EmptyMap

\* train_rlhf returned after a simulation in which every call raised.
C6_Witness ==
  /\ pc = "idle"
  /\ caller = "train_rlhf"
  /\ rec_calls = DefaultSamples
  /\ rec_ok = 0
  /\ warned # {}
  /\ result = "skipped"

\* C7 as stated: only a RecommenderFailure is recovered locally; any other
\* exception raised inside a sample is not swallowed.
C7_OnlyRecommenderFailureRecovered ==
  \A exc \in warned : exc = "RecommenderFailure"

\* C7 amended: every exception (deriving from Exception) that a collaborator
\* raises inside a sample, RecommenderFailure or not, is recovered locally:
\* it is logged, the sample is skipped, the remaining samples run, and
\* simulate_user_feedback and train_rlhf return normally.
C7_EveryExceptionRecovered ==
  /\ result # "raised"
  /\ (rec_calls > rec_ok) = (warned # {})
  /\ pc = "simulate" => rec_calls = i
  /\ (pc = "idle" /\ caller # "none") => rec_calls = n_samples

\* A simulation of two samples returned normally although a call raised a
\* ValueError; the other call appended its entry.
C7_Witness ==
  /\ result = "simulated"
  /\ n_samples = 2
  /\ warned = {"ValueError"}
  /\ rec_ok = 1
  /\ Len(training_data) = len0 + 1

KeywordGroups ==
  << [category |-> "dance", words |-> {W_dance, W_party, W_club}],
     [category |-> "calm", words |-> {W_calm, W_relax, W_study}],
     [category |-> "energetic", words |-> {W_energetic, W_workout, W_gym}],
     [category |-> "sad", words |-> {W_sad, W_emotional, W_melancholy}],
     [category |-> "happy", words |-> {W_happy, W_positive, W_upbeat}] >>

\* The groups that have a keyword occurring in the lower-cased query.
GroupsHit(query) ==
  {g \in 1..Len(KeywordGroups) :
     \E w \in KeywordGroups[g].words : Contains(Lower(query), w)}

\* C9: categorization is total and follows a fixed priority: a query maps to
\* exactly one of the six categories, the category of the first keyword group
\* (dance, calm, energetic, sad, happy) with a keyword occurring in the
\* lower-cased query, and general when no group has one; a query containing
\* both "dance" and "calm" is categorized as dance.
C9_FirstKeywordGroupWins ==
  cres # "none" =>
    /\ cres \in Categories
    /\ GroupsHit(cq) = {} => cres = "general"
    /\ GroupsHit(cq) # {} =>
         \E g \in GroupsHit(cq) :
           /\ \A h \in GroupsHit(cq) : g <= h
           /\ cres = KeywordGroups[g].category
    /\ (Contains(Lower(cq), W_dance) /\ Contains(Lower(cq), W_calm)) => cres = "dance"

\* A query holding "Calm" before "dance" was categorized as dance.
C9_Witness ==
  /\ cq = F_calm \o F_dance
  /\ cres = "dance"

\* The (entry, track) score pairs of the log whose entry's query maps to c.
ScorePairs(c) ==
  {<<k, t>> \in (1..Len(training_data)) \X TrackIds :
     /\ t \in DOMAIN training_data[k].feedback
     /\ CategoryOf[training_data[k].query] = c}

AvgAbove(st, x) == st.sum_score > x * st.count
AvgBelow(st, x) == st.sum_score < x * st.count
AvgIs(st, x) == st.sum_score = x * st.count

\* C11: a Weight Updater run leaves an adjustment mapping whose categories are
\* exactly the categories of the category statistics (none when the statistics
\* do not exist), whatever the mapping held before; each multiplier is one of
\* 0.8, 1.0, 1.2: 1.2 exactly when avg_score > 0.7, 0.8 exactly when
\* avg_score < 0.3, and 1.0 otherwise, so 1.0 when avg_score is exactly 0.7 or
\* exactly 0.3.
C11_StrictThresholdsReplaceMapping ==
  result = "updated" =>
    /\ "preference_adjustments" \in attrs
    /\ DOMAIN preference_adjustments =
         (IF "query_preferences" \in attrs THEN DOMAIN query_preferences ELSE {})
    /\ \A c \in DOMAIN preference_adjustments :
         LET st == query_preferences[c]
             m == preference_adjustments[c]
         IN /\ m \in {80, 100, 120}
            /\ (m = 120) = AvgAbove(st, 70)
            /\ (m = 80) = AvgBelow(st, 30)
            /\ (AvgIs(st, 70) \/ AvgIs(st, 30)) => m = 100

\* The Weight Updater ran on statistics with avg_score exactly 0.7 for dance
\* and exactly 0.3 for general; both got 1.0, and the earlier mapping, which
\* held dance at 0.8 and sad at 1.0, is gone.
C11_Witness ==
  /\ result = "updated"
  /\ prior_adjustments = ("dance" :> 80) @@ ("sad" :> 100)
  /\ DOMAIN query_preferences = {"dance", "general"}
  /\ AvgIs(query_preferences["dance"], 70)
  /\ AvgIs(query_preferences["general"], 30)
  /\ preference_adjustments = ("dance" :> 100) @@ ("general" :> 100)

\* The tests of _simulate_track_score whose keywords occur in the lower-cased
\* query.
TestsHit(query) ==
  {ws \in {{W_dance, W_party}, {W_energetic, W_workout}, {W_calm, W_relax},
           {W_happy, W_positive}, {W_sad, W_emotional}} :
     AnyIn(ws, Lower(query))}

\* C12: whatever the query, the values of the track's attributes (out of
\* range or missing included) and the noise, the score _simulate_track_score
\* returns lies in [0,1], also when the keywords of several tests occur in the
\* query and their adjustments add up.
C12_ScoreInUnitInterval ==
  \A k \in 1..Len(cscore) : 0 <= cscore[k] /\ cscore[k] <= 100

\* "PartyCalmsad" was scored for a track with danceability 10, energy -5 and
\* no valence: three tests hit, two adjustments of +0.3 add up to 1.1, and
\* with a noise of 0.05 the score returned is 1.
C12_Witness ==
  /\ cq = F_party \o F_calm \o F_sad
  /\ Cardinality(TestsHit(cq)) = 3
  /\ ctrack = [danceability |-> 1000, energy |-> -500]
  /\ cnoise = 5
  /\ cscore = <<100>>

====
